---------------------------- MODULE Spec2Model ----------------------------
(***************************************************************************)
(* A model of translate_mods.py: the string policy translate_text, the     *)
(* translation-memory cache TMCache, the per-format handlers and the       *)
(* orchestrator main.                                                      *)
(*                                                                         *)
(* A Python str is a sequence of one-character strings.  None is the       *)
(* token NoneVal, an exception raised by the translation client is the     *)
(* token Raise.                                                            *)
(***************************************************************************)
EXTENDS Integers, Sequences, FiniteSets, TLC

VARIABLES
    s,          \* the candidate handed to translate_text (resolve specification)
    skip_regex, \* args.skip_regex; <<>> when the option is not set
    cache,      \* TMCache.db: a function from stored keys to stored values
    cache0,     \* the cache as it was when the run opened it
    calls,      \* number of times translate_func has been invoked
    given,      \* what translate_func did on its last invocation
    res,        \* what translate_text returned last
    prev,       \* the cache as it was before the last translate_text call
    hist,       \* the translate_text calls made so far, oldest first
    phase,      \* position of the driver
    doc,        \* the parsed content of the file a handler is given
    written,    \* what the handler wrote to the file; NotWritten if nothing
    args,       \* main: the parsed command line (api_key, backup, targets)
    file_list,  \* main: the files gathered from the targets, in order
    idx,        \* main: position of the loop over file_list
    disk,       \* main: the content of every file of the file system
    backup_dir, \* main: the files copied to the backup directory
    cache_open, \* main: whether TMCache() has been constructed
    log_rows,   \* main: the rows collected for translate_log.csv
    log_file,   \* main: translate_log.csv as written by this run
    exit_code,  \* main: the process's exit status once it has ended
    events,     \* main: the handler invocations so far and how each ended
    last        \* main: what the last iteration of the file loop did

orch ==
    <<args, file_list, idx, disk, backup_dir, cache_open, log_rows, log_file,
      exit_code, events, last>>

vars ==
    <<s, skip_regex, cache, cache0, calls, given, res, prev, hist, phase,
      doc, written, orch>>

----------------------------------------------------------------------------
(* Bounds *)

MaxLen == 4

MaxResolves == 3

MaxLines == 2

MaxEntries == 2

MaxNodes == 4

MaxTargets == 1

----------------------------------------------------------------------------
(* Python str primitives *)

NL == "\n"

Chars == {" ", "a", "b"}

WS == {" ", NL}

NoneVal == <<"<None>">>

Raise == <<"<raise>">>

Strings(n) == UNION {[1..k -> Chars] : k \in 0..n}

RECURSIVE lstrip(_)
lstrip(x) == IF x # <<>> /\ Head(x) \in WS THEN lstrip(Tail(x)) ELSE x

RECURSIVE rstrip(_)
rstrip(x) ==
    IF x # <<>> /\ x[Len(x)] \in WS THEN rstrip(SubSeq(x, 1, Len(x) - 1)) ELSE x

strip(x) == rstrip(lstrip(x))

RECURSIVE join_around(_, _)
join_around(x, new) ==
    IF x = <<>> THEN new ELSE new \o <<Head(x)>> \o join_around(Tail(x), new)

RECURSIVE replace_from(_, _, _)
replace_from(x, old, new) ==
    IF Len(x) < Len(old) THEN x
    ELSE IF SubSeq(x, 1, Len(old)) = old
         THEN new \o replace_from(SubSeq(x, Len(old) + 1, Len(x)), old, new)
         ELSE <<Head(x)>> \o replace_from(Tail(x), old, new)

\* str.replace(old, new): every non-overlapping occurrence, left to right
replace(x, old, new) ==
    IF old = <<>> THEN join_around(x, new) ELSE replace_from(x, old, new)

\* re.search for a literal pattern: the pattern occurs somewhere in x
re_search(pat, x) ==
    \E i \in 1..(Len(x) - Len(pat) + 1) : SubSeq(x, i, i + Len(pat) - 1) = pat

\* Python truthiness of an Optional[str]
truthy(v) == v # NoneVal /\ v # <<>>

----------------------------------------------------------------------------
(* TMCache *)

cache_get(db, src) == IF src \in DOMAIN db THEN db[src] ELSE NoneVal

cache_put(db, src, tgt) ==
    [k \in (DOMAIN db) \cup {src} |-> IF k = src THEN tgt ELSE db[k]]

EmptyCache == [k \in {} |-> <<>>]

----------------------------------------------------------------------------
(* translate_func *)

\* a client that returns its argument: the identity function
Echo == <<"<echo>">>

\* translate_func(text) under behaviour outcome: it raises (Raise), returns
\* its argument (Echo), or returns the text outcome
client(text, outcome) == IF outcome = Echo THEN text ELSE outcome

----------------------------------------------------------------------------
(* translate_text *)

\* translate_text with the cache consulted before the skip policy
translate_text_cache_first(x, db, skip, outcome) ==
    LET s_stripped == strip(x)
        cached == cache_get(db, s_stripped)
    IN  IF truthy(cached)
        THEN [out |-> replace(x, s_stripped, cached), cache |-> db,
              called |-> FALSE, kind |-> "hit", t |-> cached, arg |-> NoneVal]
        ELSE IF s_stripped = <<>> \/ (skip # <<>> /\ re_search(skip, s_stripped))
        THEN [out |-> x, cache |-> db, called |-> FALSE, kind |-> "skip", t |-> NoneVal,
              arg |-> NoneVal]
        ELSE IF outcome = Raise
        THEN [out |-> x, cache |-> db, called |-> TRUE, kind |-> "raise", t |-> NoneVal,
              arg |-> s_stripped]
        ELSE [out |-> replace(x, s_stripped, client(s_stripped, outcome)),
              cache |-> cache_put(db, s_stripped, client(s_stripped, outcome)),
              called |-> TRUE, kind |-> "ok",
              t |-> client(s_stripped, outcome), arg |-> s_stripped]

\* translate_text returning the bare translation, surrounding whitespace lost
translate_text_no_splice(x, db, skip, outcome) ==
    LET s_stripped == strip(x)
        cached == cache_get(db, s_stripped)
    IN  IF s_stripped = <<>>
        THEN [out |-> x, cache |-> db, called |-> FALSE, kind |-> "blank", t |-> NoneVal,
              arg |-> NoneVal]
        ELSE IF skip # <<>> /\ re_search(skip, s_stripped)
        THEN [out |-> x, cache |-> db, called |-> FALSE, kind |-> "skip", t |-> NoneVal,
              arg |-> NoneVal]
        ELSE IF truthy(cached)
        THEN [out |-> cached, cache |-> db,
              called |-> FALSE, kind |-> "hit", t |-> cached, arg |-> NoneVal]
        ELSE IF outcome = Raise
        THEN [out |-> x, cache |-> db, called |-> TRUE, kind |-> "raise", t |-> NoneVal,
              arg |-> s_stripped]
        ELSE [out |-> client(s_stripped, outcome),
              cache |-> cache_put(db, s_stripped, client(s_stripped, outcome)),
              called |-> TRUE, kind |-> "ok",
              t |-> client(s_stripped, outcome), arg |-> s_stripped]

\* translate_text storing the translation before knowing the call succeeded,
\* under the untrimmed candidate
translate_text_put_untrimmed(x, db, skip, outcome) ==
    LET s_stripped == strip(x)
        cached == cache_get(db, s_stripped)
    IN  IF s_stripped = <<>>
        THEN [out |-> x, cache |-> db, called |-> FALSE, kind |-> "blank", t |-> NoneVal,
              arg |-> NoneVal]
        ELSE IF skip # <<>> /\ re_search(skip, s_stripped)
        THEN [out |-> x, cache |-> db, called |-> FALSE, kind |-> "skip", t |-> NoneVal,
              arg |-> NoneVal]
        ELSE IF truthy(cached)
        THEN [out |-> replace(x, s_stripped, cached), cache |-> db,
              called |-> FALSE, kind |-> "hit", t |-> cached, arg |-> NoneVal]
        ELSE IF outcome = Raise
        THEN [out |-> x, cache |-> db, called |-> TRUE, kind |-> "raise", t |-> NoneVal,
              arg |-> s_stripped]
        ELSE [out |-> replace(x, s_stripped, client(s_stripped, outcome)),
              cache |-> cache_put(db, x, client(s_stripped, outcome)),
              called |-> TRUE, kind |-> "ok",
              t |-> client(s_stripped, outcome), arg |-> s_stripped]

\* translate_text whose fail-safe path returns the trimmed candidate
translate_text_fail_trimmed(x, db, skip, outcome) ==
    LET s_stripped == strip(x)
        cached == cache_get(db, s_stripped)
    IN  IF s_stripped = <<>>
        THEN [out |-> x, cache |-> db, called |-> FALSE, kind |-> "blank", t |-> NoneVal,
              arg |-> NoneVal]
        ELSE IF skip # <<>> /\ re_search(skip, s_stripped)
        THEN [out |-> x, cache |-> db, called |-> FALSE, kind |-> "skip", t |-> NoneVal,
              arg |-> NoneVal]
        ELSE IF truthy(cached)
        THEN [out |-> replace(x, s_stripped, cached), cache |-> db,
              called |-> FALSE, kind |-> "hit", t |-> cached, arg |-> NoneVal]
        ELSE IF outcome = Raise
        THEN [out |-> s_stripped, cache |-> db, called |-> TRUE, kind |-> "raise",
              t |-> NoneVal, arg |-> s_stripped]
        ELSE [out |-> replace(x, s_stripped, client(s_stripped, outcome)),
              cache |-> cache_put(db, s_stripped, client(s_stripped, outcome)),
              called |-> TRUE, kind |-> "ok",
              t |-> client(s_stripped, outcome), arg |-> s_stripped]

\* db: the cache; skip: args.skip_regex; outcome: what translate_func would do
\* if it were invoked now (Raise, or the text it returns).
translate_text(x, db, skip, outcome) ==
    LET s_stripped == strip(x)
        cached == cache_get(db, s_stripped)
    IN  IF s_stripped = <<>>
        THEN [out |-> x, cache |-> db, called |-> FALSE, kind |-> "blank", t |-> NoneVal,
              arg |-> NoneVal]
        ELSE IF skip # <<>> /\ re_search(skip, s_stripped)
        THEN [out |-> x, cache |-> db, called |-> FALSE, kind |-> "skip", t |-> NoneVal,
              arg |-> NoneVal]
        ELSE IF truthy(cached)
        THEN [out |-> replace(x, s_stripped, cached), cache |-> db,
              called |-> FALSE, kind |-> "hit", t |-> cached, arg |-> NoneVal]
        ELSE IF outcome = Raise
        THEN [out |-> x, cache |-> db, called |-> TRUE, kind |-> "raise", t |-> NoneVal,
              arg |-> s_stripped]
        ELSE [out |-> replace(x, s_stripped, client(s_stripped, outcome)),
              cache |-> cache_put(db, s_stripped, client(s_stripped, outcome)),
              called |-> TRUE, kind |-> "ok",
              t |-> client(s_stripped, outcome), arg |-> s_stripped]

----------------------------------------------------------------------------
(* One call of translate_text on an arbitrary candidate *)

\* no backup directory was made
NoBackup == [made |-> FALSE, names |-> <<>>]

\* no iteration of the file loop has run
NoLast ==
    [file |-> "", handled |-> FALSE, raised |-> FALSE, wrote |-> FALSE,
     before |-> <<>>]

\* main is not running
NoMain ==
    /\ args = NoneVal
    /\ file_list = <<>>
    /\ idx = 0
    /\ disk = <<>>
    /\ backup_dir = NoBackup
    /\ cache_open = FALSE
    /\ log_rows = <<>>
    /\ log_file = NoneVal
    /\ exit_code = NoneVal
    /\ events = <<>>
    /\ last = NoLast

Translations == {<<>>, <<" ">>, <<"a">>, <<"b", " ">>, <<"a", "b">>}

Outcomes == Translations \cup {Raise}

SkipPatterns == {<<>>, <<"b">>}

\* what a handler left on disk: nothing written, or the content it wrote
NotWritten == [saved |-> FALSE, content |-> <<>>]

Saved(c) == [saved |-> TRUE, content |-> c]

NoRes ==
    [out |-> NoneVal, called |-> FALSE, kind |-> "none", t |-> NoneVal,
     arg |-> NoneVal]

ResOf(r) ==
    [out |-> r.out, called |-> r.called, kind |-> r.kind, t |-> r.t,
     arg |-> r.arg]

\* caches a run can find on disk: empty, or one entry for the key of x
StoredCaches(x) ==
    {EmptyCache} \cup
    (IF strip(x) = <<>> THEN {}
     ELSE {cache_put(EmptyCache, strip(x), v) : v \in Translations})

InitResolve ==
    /\ NoMain
    /\ s \in Strings(MaxLen)
    /\ skip_regex \in SkipPatterns
    /\ cache \in StoredCaches(s)
    /\ cache0 = cache
    /\ prev = cache
    /\ hist = <<>>
    /\ calls = 0
    /\ given = NoneVal
    /\ res = NoRes
    /\ phase = "ready"
    /\ doc = NoneVal
    /\ written = NotWritten

Resolve ==
    /\ phase = "ready"
    /\ \E outcome \in Outcomes :
         LET r == translate_text(s, cache, skip_regex, outcome)
         IN  /\ res' = ResOf(r)
             /\ cache' = r.cache
             /\ calls' = IF r.called THEN calls + 1 ELSE calls
             /\ given' = IF r.called THEN client(r.arg, outcome) ELSE NoneVal
    /\ phase' = "done"
    /\ prev' = cache
    /\ UNCHANGED <<s, skip_regex, cache0, hist, doc, written, orch>>

NextResolve == Resolve

SpecResolve == InitResolve /\ [][NextResolve]_vars

----------------------------------------------------------------------------
(* A run's sequence of translate_text calls on one cache *)

SessionStrings == {<<"a">>, <<" ", "a">>, <<"a", " ">>, <<"b">>, <<" ">>}

SessionOutcomes == {Raise, <<>>, <<" ", "b">>}

SessionCaches == {EmptyCache, cache_put(EmptyCache, <<"a">>, <<"b">>)}

InitSession ==
    /\ NoMain
    /\ s = NoneVal
    /\ skip_regex \in SkipPatterns
    /\ cache \in SessionCaches
    /\ cache0 = cache
    /\ prev = cache
    /\ hist = <<>>
    /\ calls = 0
    /\ given = NoneVal
    /\ res = NoRes
    /\ phase = "run"
    /\ doc = NoneVal
    /\ written = NotWritten

ResolveNext ==
    /\ phase = "run"
    /\ Len(hist) < MaxResolves
    /\ \E x \in SessionStrings, outcome \in SessionOutcomes :
         LET r == translate_text(x, cache, skip_regex, outcome)
             did == IF r.called THEN client(r.arg, outcome) ELSE NoneVal
         IN  /\ s' = x
             /\ res' = ResOf(r)
             /\ cache' = r.cache
             /\ calls' = IF r.called THEN calls + 1 ELSE calls
             /\ given' = did
             /\ hist' = Append(hist, [s |-> x, kind |-> r.kind, arg |-> r.arg,
                                      did |-> did, out |-> r.out])
    /\ prev' = cache
    /\ UNCHANGED <<skip_regex, cache0, phase, doc, written, orch>>

NextSession == ResolveNext

SpecSession == InitSession /\ [][NextSession]_vars

----------------------------------------------------------------------------
(* What a handler threads through its translate_text calls *)

\* cache: the shared TMCache; n: client invocations made by this handler;
\* trace: the translate_text calls made by this handler, oldest first
NewCtx(db) == [cache |-> db, n |-> 0, trace |-> <<>>]

\* the call translate_text(x, translate_func, cache, args) made by a handler;
\* oracle[i] is what translate_func does at the handler's i-th invocation
tt(x, ctx, skip, oracle) ==
    LET r == translate_text(x, ctx.cache, skip, oracle[ctx.n + 1])
    IN  [out |-> r.out,
         ctx |-> [cache |-> r.cache,
                  n |-> IF r.called THEN ctx.n + 1 ELSE ctx.n,
                  trace |-> Append(ctx.trace,
                                   [s |-> x, kind |-> r.kind, arg |-> r.arg,
                                    t |-> r.t,
                                    did |-> IF r.called
                                            THEN client(r.arg, oracle[ctx.n + 1])
                                            ELSE NoneVal,
                                    out |-> r.out])]]

Oracles(n) == [1..n -> SessionOutcomes]

----------------------------------------------------------------------------
(* translate_properties *)

startswith(x, c) == x # <<>> /\ Head(x) = c

has_char(x, c) == \E i \in 1..Len(x) : x[i] = c

first_index(x, c) == CHOOSE i \in 1..Len(x) : x[i] = c /\ \A j \in 1..(i - 1) : x[j] # c

\* line.split('=', 1) of a line that contains '='
split_key(line) == SubSeq(line, 1, first_index(line, "=") - 1)

split_val(line) == SubSeq(line, first_index(line, "=") + 1, Len(line))

RECURSIVE rstrip_nl(_)
rstrip_nl(x) ==
    IF x # <<>> /\ x[Len(x)] = NL THEN rstrip_nl(SubSeq(x, 1, Len(x) - 1)) ELSE x

\* a narrower comment test: only a '#' in the first column
is_comment_unstripped(line) == startswith(line, "#")

\* line.strip().startswith('#')
is_comment(line) == startswith(strip(line), "#")

\* the body of the loop over the file's lines, from line i on
RECURSIVE properties_loop(_, _, _, _, _, _)
properties_loop(lines, i, lines_out, ctx, skip, oracle) ==
    IF i > Len(lines) THEN [out |-> lines_out, ctx |-> ctx]
    ELSE LET line == lines[i]
         IN  IF is_comment(line) \/ ~has_char(line, "=")
             THEN properties_loop(lines, i + 1, Append(lines_out, line), ctx,
                                  skip, oracle)
             ELSE LET key == split_key(line)
                      val_s == rstrip_nl(split_val(line))
                      r == tt(val_s, ctx, skip, oracle)
                  IN  properties_loop(lines, i + 1,
                                      Append(lines_out,
                                             key \o <<"=">> \o r.out \o <<NL>>),
                                      r.ctx, skip, oracle)

translate_properties(lines, db, skip, oracle) ==
    properties_loop(lines, 1, <<>>, NewCtx(db), skip, oracle)

\* bodies of the lines of a key=value file, without the line terminator
PropBodies ==
    { <<>>, <<"#">>, <<"#", "k", "=", "a">>, <<" ", "#", "=", "a">>,
      <<"k">>, <<"=">>, <<"k", "=">>, <<"=", "a">>, <<"k", "=", "a">>,
      <<"k", "=", " ", "a">>, <<" ", "k", " ", "=", "a", " ">>,
      <<"k", "=", "a", "=", "b">>, <<"k", "=", "b">>, <<"k", "=", " ">> }

\* what iterating over an open text file yields: every line ends with its
\* newline, except that the last one may lack it (and is then not empty)
RECURSIVE FilesOfLines(_)
FilesOfLines(n) ==
    IF n = 0 THEN {<<>>}
    ELSE LET shorter == FilesOfLines(n - 1)
             full == {f \in shorter : Len(f) = n - 1}
         IN  shorter
             \cup {Append(f, b \o <<NL>>) : f \in full, b \in PropBodies}

PropFiles ==
    LET terminated == FilesOfLines(MaxLines)
    IN  terminated
        \cup {Append(f, b) : f \in {g \in terminated : Len(g) < MaxLines},
                             b \in PropBodies \ {<<>>}}

InitProps ==
    /\ NoMain
    /\ doc \in PropFiles
    /\ skip_regex \in SkipPatterns
    /\ cache \in SessionCaches
    /\ cache0 = cache
    /\ prev = cache
    /\ hist = <<>>
    /\ calls = 0
    /\ given = NoneVal
    /\ res = NoRes
    /\ s = NoneVal
    /\ phase = "ready"
    /\ written = NotWritten

HandleProperties ==
    /\ phase = "ready"
    /\ \E oracle \in Oracles(Len(doc)) :
         LET r == translate_properties(doc, cache, skip_regex, oracle)
         IN  /\ written' = Saved(r.out)
             /\ cache' = r.ctx.cache
             /\ calls' = calls + r.ctx.n
             /\ hist' = r.ctx.trace
    /\ prev' = cache
    /\ phase' = "done"
    /\ UNCHANGED <<s, skip_regex, cache0, given, res, doc, orch>>

NextProps == HandleProperties

SpecProps == InitProps /\ [][NextProps]_vars

----------------------------------------------------------------------------
(* translate_po *)

\* the loop over the catalog's entries, from entry i on; po: the entries as
\* they are in memory
RECURSIVE po_loop(_, _, _, _, _, _)
po_loop(po, i, changed, ctx, skip, oracle) ==
    IF i > Len(po) THEN [po |-> po, changed |-> changed, ctx |-> ctx]
    ELSE LET entry == po[i]
         IN  IF strip(entry.msgid) = <<>>
             THEN po_loop(po, i + 1, changed, ctx, skip, oracle)
             ELSE IF strip(entry.msgstr) = <<>>
             THEN LET r == tt(entry.msgid, ctx, skip, oracle)
                  IN  po_loop([po EXCEPT ![i].msgstr = r.out], i + 1, TRUE,
                              r.ctx, skip, oracle)
             ELSE po_loop(po, i + 1, changed, ctx, skip, oracle)

\* out: what po.save wrote, NotWritten when it was not called
translate_po(po, db, skip, oracle) ==
    LET r == po_loop(po, 1, FALSE, NewCtx(db), skip, oracle)
    IN  [po |-> r.po, out |-> IF r.changed THEN Saved(r.po) ELSE NotWritten,
         ctx |-> r.ctx]

PoEntries ==
    [msgid : {<<>>, <<"a">>, <<" ", "a">>, <<"b">>},
     msgstr : {<<>>, <<" ">>, <<"b">>}]

Catalogs == UNION {[1..n -> PoEntries] : n \in 0..MaxEntries}

InitPo ==
    /\ NoMain
    /\ doc \in Catalogs
    /\ skip_regex \in SkipPatterns
    /\ cache \in SessionCaches
    /\ cache0 = cache
    /\ prev = cache
    /\ hist = <<>>
    /\ calls = 0
    /\ given = NoneVal
    /\ res = NoneVal
    /\ s = NoneVal
    /\ phase = "ready"
    /\ written = NotWritten

HandlePo ==
    /\ phase = "ready"
    /\ \E oracle \in Oracles(Len(doc)) :
         LET r == translate_po(doc, cache, skip_regex, oracle)
         IN  /\ written' = r.out
             /\ res' = r.po
             /\ cache' = r.ctx.cache
             /\ calls' = calls + r.ctx.n
             /\ hist' = r.ctx.trace
    /\ prev' = cache
    /\ phase' = "done"
    /\ UNCHANGED <<s, skip_regex, cache0, given, doc, orch>>

NextPo == HandlePo

SpecPo == InitPo /\ [][NextPo]_vars

----------------------------------------------------------------------------
(* translate_json and translate_yaml *)

\* A parsed document: a dict (keys in insertion order, one item per key), a
\* list, a str, or another scalar (v holds its literal).
Dict(ks, xs) == [tag |-> "dict", v |-> <<>>, keys |-> ks, items |-> xs]

List(xs) == [tag |-> "list", v |-> <<>>, keys |-> <<>>, items |-> xs]

Str(x) == [tag |-> "str", v |-> x, keys |-> <<>>, items |-> <<>>]

Num(x) == [tag |-> "num", v |-> x, keys |-> <<>>, items |-> <<>>]

Bool(x) == [tag |-> "bool", v |-> x, keys |-> <<>>, items |-> <<>>]

Null == [tag |-> "null", v |-> <<>>, keys |-> <<>>, items |-> <<>>]

\* a wider leaf test: every scalar is taken for a str
isinstance_scalar(obj) == obj.tag \in {"str", "num", "bool", "null"}

\* isinstance(obj, str)
isinstance_str(obj) == obj.tag = "str"

RECURSIVE walk(_, _, _, _)
RECURSIVE walk_items(_, _, _, _, _, _)

\* walk(obj) of both handlers; the comprehensions visit the items in order
walk(obj, ctx, skip, oracle) ==
    IF obj.tag = "dict" \/ obj.tag = "list"
    THEN LET r == walk_items(obj.items, 1, <<>>, ctx, skip, oracle)
         IN  [out |-> [obj EXCEPT !.items = r.out], ctx |-> r.ctx]
    ELSE IF isinstance_str(obj)
    THEN LET r == tt(obj.v, ctx, skip, oracle)
         IN  [out |-> [obj EXCEPT !.v = r.out], ctx |-> r.ctx]
    ELSE [out |-> obj, ctx |-> ctx]

walk_items(xs, i, done, ctx, skip, oracle) ==
    IF i > Len(xs) THEN [out |-> done, ctx |-> ctx]
    ELSE LET r == walk(xs[i], ctx, skip, oracle)
         IN  walk_items(xs, i + 1, Append(done, r.out), r.ctx, skip, oracle)

\* the order in which str keys sort
KeyOrder == <<"k1", "k2">>

KeyIndex(ks, k) == CHOOSE i \in 1..Len(ks) : ks[i] = k

InKeys(ks, k) == \E i \in 1..Len(ks) : ks[i] = k

sorted_keys(ks) == SelectSeq(KeyOrder, LAMBDA k : InKeys(ks, k))

\* json.dump(new, f, ensure_ascii=False, indent=2): what a parser reads back
\* from the text written; dicts are written in insertion order
json_dump(obj) == obj

\* yaml.safe_dump(new, f, allow_unicode=True): sort_keys defaults to True,
\* every mapping is written with its keys sorted
RECURSIVE yaml_dump(_)
yaml_dump(obj) ==
    IF obj.tag = "dict"
    THEN LET ks == sorted_keys(obj.keys)
         IN  [obj EXCEPT !.keys = ks,
                         !.items = [i \in 1..Len(ks) |->
                                      yaml_dump(obj.items[KeyIndex(obj.keys, ks[i])])]]
    ELSE IF obj.tag = "list"
    THEN [obj EXCEPT !.items = [i \in 1..Len(obj.items) |-> yaml_dump(obj.items[i])]]
    ELSE obj

\* new: the structure walk built; out: what was written to the file
translate_json(data, db, skip, oracle) ==
    LET r == walk(data, NewCtx(db), skip, oracle)
    IN  [new |-> r.out, out |-> Saved(json_dump(r.out)), ctx |-> r.ctx]

translate_yaml(data, db, skip, oracle) ==
    LET r == walk(data, NewCtx(db), skip, oracle)
    IN  [new |-> r.out, out |-> Saved(yaml_dump(r.out)), ctx |-> r.ctx]

Leaves ==
    {Str(<<" ", "a">>), Str(<<"b">>), Num(<<"1">>), Bool(<<"true">>), Null}

\* the sequences of distinct keys of length n
KeySeqs(n) ==
    {ks \in [1..n -> {KeyOrder[i] : i \in 1..Len(KeyOrder)}] :
        \A i, j \in 1..n : i # j => ks[i] # ks[j]}

\* the documents of exactly n nodes, and the item sequences of n nodes in all
RECURSIVE TreesOfSize(_)
RECURSIVE Forests(_)
TreesOfSize(n) ==
    IF n = 1 THEN Leaves \cup {List(<<>>), Dict(<<>>, <<>>)}
    ELSE LET fs == Forests(n - 1)
         IN  {List(f) : f \in fs}
             \cup UNION {{Dict(ks, f) : ks \in KeySeqs(Len(f))} :
                            f \in {g \in fs : Len(g) <= Len(KeyOrder)}}

Forests(m) ==
    IF m = 0 THEN {<<>>}
    ELSE UNION {{<<x>> \o f : x \in TreesOfSize(k), f \in Forests(m - k)} :
                   k \in 1..m}

Trees == UNION {TreesOfSize(n) : n \in 1..MaxNodes}

RECURSIVE CountStr(_)
RECURSIVE CountStrIn(_, _)
CountStr(obj) ==
    IF obj.tag = "str" THEN 1
    ELSE IF obj.tag \in {"dict", "list"} THEN CountStrIn(obj.items, 1)
    ELSE 0

CountStrIn(xs, i) ==
    IF i > Len(xs) THEN 0 ELSE CountStr(xs[i]) + CountStrIn(xs, i + 1)

\* the identity client: every invocation returns its argument
IdentityOracle(n) == [i \in 1..n |-> Echo]

InitTree ==
    /\ NoMain
    /\ doc \in [kind : {"json", "yaml"}, data : Trees]
    /\ skip_regex = <<>>
    /\ cache \in SessionCaches
    /\ cache0 = cache
    /\ prev = cache
    /\ hist = <<>>
    /\ calls = 0
    /\ given = NoneVal
    /\ res = NoneVal
    /\ s = NoneVal
    /\ phase = "ready"
    /\ written = NotWritten

HandleJson ==
    /\ phase = "ready"
    /\ doc.kind = "json"
    /\ LET r == translate_json(doc.data, cache, skip_regex,
                               IdentityOracle(CountStr(doc.data)))
       IN  /\ written' = r.out
           /\ res' = r.new
           /\ cache' = r.ctx.cache
           /\ calls' = calls + r.ctx.n
           /\ hist' = r.ctx.trace
    /\ prev' = cache
    /\ phase' = "done"
    /\ UNCHANGED <<s, skip_regex, cache0, given, doc, orch>>

HandleYaml ==
    /\ phase = "ready"
    /\ doc.kind = "yaml"
    /\ LET r == translate_yaml(doc.data, cache, skip_regex,
                               IdentityOracle(CountStr(doc.data)))
       IN  /\ written' = r.out
           /\ res' = r.new
           /\ cache' = r.ctx.cache
           /\ calls' = calls + r.ctx.n
           /\ hist' = r.ctx.trace
    /\ prev' = cache
    /\ phase' = "done"
    /\ UNCHANGED <<s, skip_regex, cache0, given, doc, orch>>

NextTree == HandleJson \/ HandleYaml

SpecTree == InitTree /\ [][NextTree]_vars

----------------------------------------------------------------------------
(* translate_txt *)

RECURSIVE txt_loop(_, _, _, _, _, _)
txt_loop(lines, i, out_lines, ctx, skip, oracle) ==
    IF i > Len(lines) THEN [out |-> out_lines, ctx |-> ctx]
    ELSE LET line == lines[i]
             st == rstrip_nl(line)
         IN  IF strip(st) = <<>>
             THEN txt_loop(lines, i + 1, Append(out_lines, line), ctx, skip, oracle)
             ELSE LET r == tt(st, ctx, skip, oracle)
                  IN  txt_loop(lines, i + 1, Append(out_lines, r.out \o <<NL>>),
                               r.ctx, skip, oracle)

translate_txt(lines, db, skip, oracle) ==
    LET r == txt_loop(lines, 1, <<>>, NewCtx(db), skip, oracle)
    IN  [out |-> Saved(r.out), ctx |-> r.ctx]

----------------------------------------------------------------------------
(* translate_xml *)

\* an element: its text (NoneVal when it has none), its attribute values in
\* order, its child elements
Elem(text, attrib, kids) == [text |-> text, attrib |-> attrib, kids |-> kids]

RECURSIVE attrib_loop(_, _, _, _, _)
attrib_loop(attrib, i, ctx, skip, oracle) ==
    IF i > Len(attrib) THEN [out |-> attrib, ctx |-> ctx]
    ELSE LET r == tt(attrib[i], ctx, skip, oracle)
         IN  attrib_loop([attrib EXCEPT ![i] = r.out], i + 1, r.ctx, skip, oracle)

RECURSIVE xml_walk(_, _, _, _)
RECURSIVE xml_kids(_, _, _, _, _)

xml_walk(elem, ctx, skip, oracle) ==
    LET a == IF truthy(elem.text) /\ strip(elem.text) # <<>>
             THEN tt(elem.text, ctx, skip, oracle)
             ELSE [out |-> elem.text, ctx |-> ctx]
        b == attrib_loop(elem.attrib, 1, a.ctx, skip, oracle)
        c == xml_kids(elem.kids, 1, b.ctx, skip, oracle)
    IN  [out |-> Elem(a.out, b.out, c.out), ctx |-> c.ctx]

xml_kids(kids, i, ctx, skip, oracle) ==
    IF i > Len(kids) THEN [out |-> kids, ctx |-> ctx]
    ELSE LET r == xml_walk(kids[i], ctx, skip, oracle)
         IN  xml_kids([kids EXCEPT ![i] = r.out], i + 1, r.ctx, skip, oracle)

translate_xml(root, db, skip, oracle) ==
    LET r == xml_walk(root, NewCtx(db), skip, oracle)
    IN  [out |-> Saved(r.out), ctx |-> r.ctx]

----------------------------------------------------------------------------
(* main *)

\* the file system the run finds: the files, the one directory, its content
FileNames ==
    {"a.json", "b.yml", "c.properties", "d.txt", "e.po", "f.xml", "g.md"}

suffix(f) ==
    CASE f = "a.json" -> ".json"
      [] f = "b.yml" -> ".yml"
      [] f = "c.properties" -> ".properties"
      [] f = "d.txt" -> ".txt"
      [] f = "e.po" -> ".po"
      [] f = "f.xml" -> ".xml"
      [] OTHER -> ".md"

DirName == "mods"

DirFiles == {"d.txt", "a.json", "g.md"}

OnDisk(data) == [garbled |-> FALSE, data |-> data]

\* what is left of a file whose write failed part-way
Garbled == [garbled |-> TRUE, data |-> <<>>]

InitialData ==
    [f \in FileNames |->
       CASE f = "a.json" ->
              Dict(<<"k2", "k1">>,
                   <<Str(<<" ", "a">>), List(<<Str(<<"b">>), Num(<<"1">>)>>)>>)
         [] f = "b.yml" ->
              Dict(<<"k2", "k1">>,
                   <<Str(<<"a", " ">>), List(<<Bool(<<"true">>), Str(<<"b">>)>>)>>)
         [] f = "c.properties" ->
              << <<"#", "c", NL>>, <<"k", "=", " ", "a", NL>>, <<"k", "=", "b">> >>
         [] f = "d.txt" ->
              << <<" ", "a", NL>>, <<NL>>, <<"b">> >>
         [] f = "e.po" ->
              << [msgid |-> <<"a">>, msgstr |-> <<>>],
                 [msgid |-> <<"b">>, msgstr |-> <<"b">>],
                 [msgid |-> <<" ", "b">>, msgstr |-> <<" ">>] >>
         [] f = "f.xml" ->
              Elem(<<" ", "a">>, <<<<"b">>>>, <<Elem(NoneVal, <<>>, <<>>)>>)
         [] OTHER -> <<>>]

InitialDisk == [f \in FileNames |-> OnDisk(InitialData[f])]

\* exts_handlers, in the order of its items
exts == <<".json", ".yml", ".yaml", ".properties", ".txt", ".po", ".xml">>

exts_handlers(e) ==
    CASE e = ".json" -> "translate_json"
      [] e = ".yml" -> "translate_yaml"
      [] e = ".yaml" -> "translate_yaml"
      [] e = ".properties" -> "translate_properties"
      [] e = ".txt" -> "translate_txt"
      [] e = ".po" -> "translate_po"
      [] e = ".xml" -> "translate_xml"
      [] OTHER -> "None"

\* handler(str(f), translate_func, cache, args)
run_handler(h, data, db, skip, oracle) ==
    IF h = "translate_json"
    THEN LET r == translate_json(data, db, skip, oracle)
         IN  [out |-> r.out, ctx |-> r.ctx]
    ELSE IF h = "translate_yaml"
    THEN LET r == translate_yaml(data, db, skip, oracle)
         IN  [out |-> r.out, ctx |-> r.ctx]
    ELSE IF h = "translate_properties"
    THEN LET r == translate_properties(data, db, skip, oracle)
         IN  [out |-> Saved(r.out), ctx |-> r.ctx]
    ELSE IF h = "translate_txt"
    THEN translate_txt(data, db, skip, oracle)
    ELSE IF h = "translate_po"
    THEN LET r == translate_po(data, db, skip, oracle)
         IN  [out |-> r.out, ctx |-> r.ctx]
    ELSE translate_xml(data, db, skip, oracle)

\* list(pth.rglob('*' + e)) for the directory
rglob(e) ==
    LET found == {f \in DirFiles : suffix(f) = e}
    IN  IF found = {} THEN <<>> ELSE <<CHOOSE f \in found : TRUE>>

RECURSIVE dir_files(_)
dir_files(i) == IF i > Len(exts) THEN <<>> ELSE rglob(exts[i]) \o dir_files(i + 1)

RECURSIVE gather(_, _)
gather(targets, i) ==
    IF i > Len(targets) THEN <<>>
    ELSE (IF targets[i] = DirName THEN dir_files(1)
          ELSE IF targets[i] \in FileNames THEN <<targets[i]>>
          ELSE <<>>) \o gather(targets, i + 1)

\* a narrower key test: only an absent key counts as missing
key_missing_none_only(a) == a.api_key = NoneVal

\* not args.api_key
key_missing(a) == ~truthy(a.api_key)

\* a failed file logged like a processed one
error_row_as_ok(f, e) == <<f, "OK">>

\* [str(f), "ERROR", str(e)]
error_row(f, e) == <<f, "ERROR", e>>

ok_row(f) == <<f, "OK">>

LogHeader == <<"file", "status", "note">>

Targets == FileNames \cup {DirName, "nowhere"}

TargetLists == UNION {[1..n -> Targets] : n \in 1..MaxTargets}

RunOutcomes == {Raise, <<" ", "b">>}

RunOracles == [1..2 -> RunOutcomes]

Init ==
    /\ args \in [api_key : {NoneVal, <<>>, <<"k">>}, backup : BOOLEAN,
                  targets : TargetLists]
    /\ skip_regex \in SkipPatterns
    /\ cache0 \in SessionCaches
    /\ cache = EmptyCache
    /\ cache_open = FALSE
    /\ disk = InitialDisk
    /\ file_list = <<>>
    /\ idx = 0
    /\ backup_dir = NoBackup
    /\ log_rows = <<>>
    /\ log_file = NoneVal
    /\ exit_code = NoneVal
    /\ events = <<>>
    /\ last = NoLast
    /\ calls = 0
    /\ hist = <<>>
    /\ prev = EmptyCache
    /\ phase = "start"
    /\ s = NoneVal
    /\ given = NoneVal
    /\ res = NoneVal
    /\ doc = NoneVal
    /\ written = NotWritten

text == <<s, given, res, doc, written, skip_regex, cache0>>

\* lines 181-183: no API key, the process exits with status 1
ExitNoKey ==
    /\ phase = "start"
    /\ key_missing(args)
    /\ exit_code' = 1
    /\ phase' = "exited"
    /\ UNCHANGED <<text, cache, calls, prev, hist, args, file_list, idx, disk,
                   backup_dir, cache_open, log_rows, log_file, events, last>>

\* lines 195-204: gather the files
Gather ==
    /\ phase = "start"
    /\ ~key_missing(args)
    /\ file_list' = gather(args.targets, 1)
    /\ phase' = "backup"
    /\ UNCHANGED <<text, cache, calls, prev, hist, args, idx, disk, backup_dir,
                   cache_open, log_rows, log_file, exit_code, events, last>>

\* lines 206-212: copy every gathered file to the backup directory
Backup ==
    /\ phase = "backup"
    /\ backup_dir' = IF args.backup
                     THEN [made |-> TRUE, names |-> file_list]
                     ELSE NoBackup
    /\ phase' = "open"
    /\ UNCHANGED <<text, cache, calls, prev, hist, args, file_list, idx, disk,
                   cache_open, log_rows, log_file, exit_code, events, last>>

\* lines 214-222: open the cache
OpenCache ==
    /\ phase = "open"
    /\ cache_open' = TRUE
    /\ cache' = cache0
    /\ prev' = cache0
    /\ idx' = 1
    /\ phase' = "loop"
    /\ UNCHANGED <<text, calls, hist, args, file_list, disk, backup_dir,
                   log_rows, log_file, exit_code, events, last>>

\* lines 225-229: a file whose suffix has no handler
SkipNoHandler ==
    /\ phase = "loop"
    /\ idx <= Len(file_list)
    /\ exts_handlers(suffix(file_list[idx])) = "None"
    /\ idx' = idx + 1
    /\ last' = [file |-> file_list[idx], handled |-> FALSE, raised |-> FALSE,
                wrote |-> FALSE, before |-> disk[file_list[idx]].data]
    /\ hist' = <<>>
    /\ UNCHANGED <<text, cache, calls, prev, args, file_list, disk, backup_dir,
                   cache_open, log_rows, log_file, exit_code, events, phase>>

\* lines 230-233: the handler returns
HandleOk ==
    /\ phase = "loop"
    /\ idx <= Len(file_list)
    /\ LET f == file_list[idx]
           h == exts_handlers(suffix(f))
       IN  /\ h # "None"
           /\ ~disk[f].garbled
           /\ \E oracle \in RunOracles :
                \E r \in {run_handler(h, disk[f].data, cache, skip_regex, oracle)} :
                    /\ disk' = IF r.out.saved
                               THEN [disk EXCEPT ![f] = OnDisk(r.out.content)]
                               ELSE disk
                    /\ cache' = r.ctx.cache
                    /\ calls' = calls + r.ctx.n
                    /\ hist' = r.ctx.trace
                    /\ last' = [file |-> f, handled |-> TRUE, raised |-> FALSE,
                                wrote |-> r.out.saved, before |-> disk[f].data]
           /\ log_rows' = Append(log_rows, ok_row(f))
           /\ events' = Append(events, [file |-> f, raised |-> FALSE,
                                        note |-> NoneVal])
    /\ prev' = cache
    /\ idx' = idx + 1
    /\ UNCHANGED <<text, args, file_list, backup_dir, cache_open, log_file,
                   exit_code, phase>>

\* lines 234-236: the handler raises while reading or parsing the file
HandleParseError ==
    /\ phase = "loop"
    /\ idx <= Len(file_list)
    /\ LET f == file_list[idx]
           h == exts_handlers(suffix(f))
           e == "cannot parse"
       IN  /\ h # "None"
           /\ log_rows' = Append(log_rows, error_row(f, e))
           /\ events' = Append(events, [file |-> f, raised |-> TRUE, note |-> e])
           /\ last' = [file |-> f, handled |-> TRUE, raised |-> TRUE,
                       wrote |-> FALSE, before |-> disk[f].data]
    /\ hist' = <<>>
    /\ prev' = cache
    /\ idx' = idx + 1
    /\ UNCHANGED <<text, cache, calls, args, file_list, disk, backup_dir,
                   cache_open, log_file, exit_code, phase>>

\* lines 234-236: the handler raises while writing the file, after its
\* translate_text calls; the file is left as it was or garbled
HandleSaveError ==
    /\ phase = "loop"
    /\ idx <= Len(file_list)
    /\ LET f == file_list[idx]
           h == exts_handlers(suffix(f))
           e == "cannot write"
       IN  /\ h # "None"
           /\ ~disk[f].garbled
           /\ \E oracle \in RunOracles :
                \E r \in {run_handler(h, disk[f].data, cache, skip_regex, oracle)} :
                    /\ r.out.saved
                    /\ cache' = r.ctx.cache
                    /\ calls' = calls + r.ctx.n
                    /\ hist' = r.ctx.trace
           /\ \E g \in BOOLEAN :
                disk' = [disk EXCEPT ![f] = IF g THEN Garbled ELSE disk[f]]
           /\ log_rows' = Append(log_rows, error_row(f, e))
           /\ events' = Append(events, [file |-> f, raised |-> TRUE, note |-> e])
           /\ last' = [file |-> f, handled |-> TRUE, raised |-> TRUE,
                       wrote |-> FALSE, before |-> disk[f].data]
    /\ prev' = cache
    /\ idx' = idx + 1
    /\ UNCHANGED <<text, args, file_list, backup_dir, cache_open, log_file,
                   exit_code, phase>>

\* lines 238-245: close the cache, write the log
Finish ==
    /\ phase = "loop"
    /\ idx > Len(file_list)
    /\ cache_open' = FALSE
    /\ log_file' = <<LogHeader>> \o log_rows
    /\ exit_code' = 0
    /\ phase' = "done"
    /\ UNCHANGED <<text, cache, calls, prev, hist, args, file_list, idx, disk,
                   backup_dir, log_rows, events, last>>

Next ==
    \/ ExitNoKey
    \/ Gather
    \/ Backup
    \/ OpenCache
    \/ SkipNoHandler
    \/ HandleOk
    \/ HandleParseError
    \/ HandleSaveError
    \/ Finish

Spec == Init /\ [][Next]_vars

----------------------------------------------------------------------------
(* Properties of one translate_text call *)

\* the maximal leading and trailing whitespace runs of x
LeadLen(x) ==
    CHOOSE n \in 0..Len(x) :
        /\ \A i \in 1..n : x[i] \in WS
        /\ (n < Len(x) => x[n + 1] \notin WS)

TrailLen(x) ==
    CHOOSE n \in 0..Len(x) :
        /\ \A i \in (Len(x) - n + 1)..Len(x) : x[i] \in WS
        /\ (n < Len(x) => x[Len(x) - n] \notin WS)

Lead(x) == SubSeq(x, 1, LeadLen(x))

Trail(x) == SubSeq(x, Len(x) - TrailLen(x) + 1, Len(x))

AllSpace(x) == \A i \in 1..Len(x) : x[i] \in WS

Core(x) == SubSeq(x, LeadLen(x) + 1, Len(x) - TrailLen(x))

Contains(x, pat) ==
    \E i \in 1..(Len(x) - Len(pat) + 1) : SubSeq(x, i, i + Len(pat) - 1) = pat

Skipped(x, skip) ==
    AllSpace(x) \/ (skip # <<>> /\ Contains(Core(x), skip))

\* C4: a candidate that is empty or all whitespace, or whose trimmed form
\* matches the configured exclusion pattern, is returned unchanged and the
\* translation client is not called for it, whatever the cache holds.
C4_SkipPolicy ==
    (phase = "done" /\ Skipped(s, skip_regex)) =>
        /\ res.out = s
        /\ ~res.called
        /\ calls = 0
        /\ given = NoneVal

C4_Witness ==
    /\ phase = "done"
    /\ skip_regex # <<>>
    /\ ~AllSpace(s)
    /\ Contains(Core(s), skip_regex)
    /\ Lead(s) # <<>>
    /\ Core(s) \in DOMAIN cache0
    /\ truthy(cache0[Core(s)])
    /\ res.out = s

\* C5: a candidate translated to t, by a cache hit or by a successful client
\* call, resolves to its leading whitespace, then t, then its trailing
\* whitespace.
C5_WhitespacePreserved ==
    (phase = "done" /\ res.kind \in {"hit", "ok"}) =>
        LET t == IF res.kind = "hit" THEN cache0[Core(s)] ELSE given
        IN  res.out = Lead(s) \o t \o Trail(s)

C5_Witness ==
    /\ phase = "done"
    /\ res.kind = "ok"
    /\ Lead(s) # <<>>
    /\ Trail(s) # <<>>
    /\ Len(Core(s)) = 2
    /\ Core(s)[1] = Core(s)[2]
    /\ given # <<>>
    /\ res.out = Lead(s) \o given \o Trail(s)

----------------------------------------------------------------------------
(* Properties of a run's sequence of translate_text calls *)

\* the client returned normally on call i
Returned(i) == hist[i].did # NoneVal /\ hist[i].did # Raise

\* C3: once a successful client call has stored a translation for trimmed key
\* k, every later candidate whose trimmed form is k is a cache hit resolved
\* without calling the client, so the client succeeds at most once per key.
C3_CacheDedup ==
    \A i, j \in 1..Len(hist) :
        (i < j /\ Returned(i) /\ Core(hist[j].s) = hist[i].arg) =>
            (hist[j].kind = "hit" /\ hist[j].did = NoneVal)

LastReturn(k) ==
    LET I == {i \in 1..Len(hist) : Returned(i) /\ hist[i].arg = k}
    IN  IF I = {} THEN NoneVal
        ELSE hist[CHOOSE i \in I : \A j \in I : j <= i].did

Added == {k \in DOMAIN cache : k \notin DOMAIN cache0 \/ cache[k] # cache0[k]}

\* C10: every entry the run added to the cache has a non-empty key equal to
\* its own trimmed form and the value the client returned for that key, and
\* the cache changes only in a call whose client call returned normally.
C10_CacheIntegrity ==
    /\ \A k \in Added :
          /\ k # <<>>
          /\ ~AllSpace(k)
          /\ Core(k) = k
          /\ cache[k] = LastReturn(k)
    /\ (cache # prev =>
          /\ given # NoneVal
          /\ given # Raise
          /\ cache = cache_put(prev, Core(s), given))
    /\ (res.kind \in {"blank", "skip", "hit", "raise"} => cache = prev)

C10_Witness ==
    /\ Len(hist) = 3
    /\ hist[1].s = <<" ", "a">>
    /\ hist[1].kind = "ok"
    /\ hist[2].kind = "raise"
    /\ hist[3].kind = "hit"
    /\ cache = cache_put(cache0, <<"a">>, <<" ", "b">>)
    /\ <<"a">> \notin DOMAIN cache0

----------------------------------------------------------------------------
(* Properties of translate_properties *)

\* the text before the first '=' of a line that has one, and the text after
\* it without the line's newline
EqAt(line) == CHOOSE n \in 1..Len(line) :
                  line[n] = "=" /\ \A i \in 1..(n - 1) : line[i] # "="

KeyOf(line) == SubSeq(line, 1, EqAt(line) - 1)

ValueOf(line) ==
    LET rest == SubSeq(line, EqAt(line) + 1, Len(line))
    IN  IF rest # <<>> /\ rest[Len(rest)] = NL
        THEN SubSeq(rest, 1, Len(rest) - 1) ELSE rest

HasEq(line) == \E i \in 1..Len(line) : line[i] = "="

\* a comment: the first character that is not whitespace is '#'
CommentLine(line) == ~AllSpace(line) /\ line[LeadLen(line) + 1] = "#"

\* a comment in the narrow sense: '#' in the first column
HashFirst(line) == line # <<>> /\ line[1] = "#"

Verbatim(line) == CommentLine(line) \/ ~HasEq(line)

\* the number of lines among the first i that are handed to translate_text
NthCandidate(i) == Cardinality({j \in 1..i : ~Verbatim(doc[j])})

\* C8: one output line per input line, in order; a line whose first
\* non-blank character is '#', or that has no '=', is written verbatim; any
\* other line is written as the text before its first '=', then '=', then
\* the resolved form of the text after it (without the newline), then one
\* newline.
C8_KeyValueLines ==
    phase = "done" =>
        /\ written.saved
        /\ Len(written.content) = Len(doc)
        /\ Len(hist) = NthCandidate(Len(doc))
        /\ \A i \in 1..Len(doc) :
              IF Verbatim(doc[i]) THEN written.content[i] = doc[i]
              ELSE /\ hist[NthCandidate(i)].s = ValueOf(doc[i])
                   /\ written.content[i] = KeyOf(doc[i]) \o <<"=">>
                                     \o hist[NthCandidate(i)].out \o <<NL>>

C8_Witness ==
    /\ phase = "done"
    /\ Len(doc) = 2
    /\ doc[1] = <<" ", "#", "=", "a", NL>>
    /\ written.content[1] = doc[1]
    /\ doc[2] = <<"k", "=", " ", "a">>
    /\ Len(hist) = 1
    /\ hist[1].kind = "ok"
    /\ written.content[2] = <<"k", "=", " ", " ", "b", NL>>

\* C8 as stated: only a line starting with '#' counts as a comment
C8_AsStated ==
    phase = "done" =>
        /\ written.saved
        /\ Len(written.content) = Len(doc)
        /\ \A i \in 1..Len(doc) :
              IF HashFirst(doc[i]) \/ ~HasEq(doc[i]) THEN written.content[i] = doc[i]
              ELSE \E r \in {doc[i]} \cup {h.out : h \in {hist[j] : j \in 1..Len(hist)}} :
                     written.content[i] = KeyOf(doc[i]) \o <<"=">> \o r \o <<NL>>

----------------------------------------------------------------------------
(* Properties of translate_po *)

\* an entry the catalog handler may fill in: it has an id and no translation
Eligible(e) == ~AllSpace(e.msgid) /\ AllSpace(e.msgstr)

NthEligible(i) == Cardinality({j \in 1..i : Eligible(doc[j])})

\* C7: an entry's translation is written only if its id is non-empty and
\* its translation is empty; an entry that has a translation keeps it; an
\* eligible entry is populated with the resolved form of its id; the catalog
\* file is rewritten only if at least one entry changed.
C7_Catalog ==
    phase = "done" =>
        /\ Len(res) = Len(doc)
        /\ Len(hist) = NthEligible(Len(doc))
        /\ \A i \in 1..Len(doc) :
              /\ res[i].msgid = doc[i].msgid
              /\ (res[i].msgstr # doc[i].msgstr => Eligible(doc[i]))
              /\ (~AllSpace(doc[i].msgstr) => res[i].msgstr = doc[i].msgstr)
              /\ (Eligible(doc[i]) => res[i].msgstr = hist[NthEligible(i)].out)
        /\ (written.saved =>
              /\ written.content = res
              /\ \E i \in 1..Len(doc) : res[i] # doc[i])

\* what the handler does do: it rewrites the file exactly when some entry
\* was eligible, whether or not the entry's text came out different
C7_RewrittenIffEligible ==
    phase = "done" =>
        /\ Len(res) = Len(doc)
        /\ Len(hist) = NthEligible(Len(doc))
        /\ \A i \in 1..Len(doc) :
              /\ res[i].msgid = doc[i].msgid
              /\ (res[i].msgstr # doc[i].msgstr => Eligible(doc[i]))
              /\ (~AllSpace(doc[i].msgstr) => res[i].msgstr = doc[i].msgstr)
              /\ (Eligible(doc[i]) => res[i].msgstr = hist[NthEligible(i)].out)
        /\ (written.saved <=> \E i \in 1..Len(doc) : Eligible(doc[i]))
        /\ (written.saved => written.content = res)

----------------------------------------------------------------------------
(* Properties of translate_json and translate_yaml *)

\* the str leaves of a document, depth first, in key and sequence order
RECURSIVE StrLeaves(_)
RECURSIVE StrLeavesIn(_, _)
StrLeaves(obj) ==
    IF obj.tag = "str" THEN <<obj.v>>
    ELSE IF obj.tag \in {"dict", "list"} THEN StrLeavesIn(obj.items, 1)
    ELSE <<>>

StrLeavesIn(xs, i) ==
    IF i > Len(xs) THEN <<>> ELSE StrLeaves(xs[i]) \o StrLeavesIn(xs, i + 1)

\* equal as data: the same shape and leaves, a mapping's key order aside
RECURSIVE DeepEqual(_, _)
DeepEqual(a, b) ==
    /\ a.tag = b.tag
    /\ a.v = b.v
    /\ Len(a.items) = Len(b.items)
    /\ IF a.tag = "dict"
       THEN /\ {a.keys[i] : i \in 1..Len(a.keys)} = {b.keys[i] : i \in 1..Len(b.keys)}
            /\ \A i \in 1..Len(a.keys) :
                  \E j \in 1..Len(b.keys) :
                     b.keys[j] = a.keys[i] /\ DeepEqual(a.items[i], b.items[j])
       ELSE \A i \in 1..Len(a.items) : DeepEqual(a.items[i], b.items[i])

\* every mapping of the document has its keys in sorted order
RECURSIVE KeysSorted(_)
KeysSorted(obj) ==
    /\ (obj.tag = "dict" =>
          \A i, j \in 1..Len(obj.keys) :
             i < j => KeyIndex(KeyOrder, obj.keys[i]) < KeyIndex(KeyOrder, obj.keys[j]))
    /\ \A i \in 1..Len(obj.items) : KeysSorted(obj.items[i])

Passed == [i \in 1..Len(hist) |-> hist[i].s]

\* the cache holds an entry for the trimmed form of some str leaf
CacheKnowsLeaf ==
    \E i \in 1..Len(StrLeaves(doc.data)) :
        Core(StrLeaves(doc.data)[i]) \in DOMAIN cache0

----------------------------------------------------------------------------
(* Properties of main *)

\* an API key was given: by the option or by the environment, and not empty
KeyResolvable == args.api_key # NoneVal /\ args.api_key # <<>>

\* C6: when no API key is resolvable the run ends with exit code 1 and
\* nothing else has happened: no target was gathered, nothing was backed
\* up, read or written, the cache was not opened, the translation client was
\* not called and no run log was written; a run that has a key ends with
\* exit code 0.
C6_ConfigErrorFatal ==
    /\ (~KeyResolvable =>
          /\ phase \in {"start", "exited"}
          /\ (phase = "exited" => exit_code = 1)
          /\ file_list = <<>>
          /\ backup_dir = NoBackup
          /\ disk = InitialDisk
          /\ ~cache_open
          /\ cache = EmptyCache
          /\ calls = 0
          /\ hist = <<>>
          /\ log_rows = <<>>
          /\ log_file = NoneVal)
    /\ (KeyResolvable =>
          /\ phase # "exited"
          /\ (phase = "done" => exit_code = 0))

C6_Witness ==
    /\ phase = "exited"
    /\ exit_code = 1
    /\ args.api_key = <<>>
    /\ args.backup
    /\ args.targets = <<DirName>>

\* the suffixes a handler is registered for
Handled == {".json", ".yml", ".yaml", ".properties", ".txt", ".po", ".xml"}

HasHandler(f) == suffix(f) \in Handled

\* the files among the first n gathered that are dispatched to a handler
Dispatched(n) == SelectSeq(SubSeq(file_list, 1, n), HasHandler)

\* the row the log holds for a handler invocation
RowOf(e) == IF e.raised THEN <<e.file, "ERROR", e.note>> ELSE <<e.file, "OK">>

RunLog ==
    /\ Len(log_rows) = Len(events)
    /\ \A i \in 1..Len(events) : log_rows[i] = RowOf(events[i])
    /\ (phase \in {"loop", "done"} =>
          [i \in 1..Len(events) |-> events[i].file] = Dispatched(idx - 1))
    /\ (phase = "done" =>
          /\ idx = Len(file_list) + 1
          /\ log_file = <<LogHeader>> \o log_rows)
    /\ (phase # "done" => log_file = NoneVal)

RowsOnlyAppended ==
    /\ Len(log_rows') >= Len(log_rows)
    /\ SubSeq(log_rows', 1, Len(log_rows)) = log_rows

\* C2: whichever handlers raise, every gathered file that has a handler is
\* dispatched, in gathering order; the rows hold exactly one row per
\* dispatched file, in that order, with status ERROR and the exception text
\* as note if and only if the handler raised and status OK otherwise; the log
\* file is written once, at the end, as the header followed by the rows; a
\* row, once appended, is never changed or removed.
C2_RunLog == [](RunLog) /\ [][RowsOnlyAppended]_vars

C2_Witness ==
    /\ phase = "done"
    /\ file_list = <<"a.json", "d.txt">>
    /\ log_file = <<LogHeader, <<"a.json", "ERROR", "cannot parse">>,
                    <<"d.txt", "OK">>>>

----------------------------------------------------------------------------
(* Properties of a handler run by main *)

\* what a file holds in place of candidate h.s once the handler is done: the
\* candidate itself when it was skipped or the client raised for it, else
\* its translation (returned by the client, or cached) between the
\* candidate's own leading and trailing whitespace
Expected(h) ==
    IF h.did = Raise \/ h.kind \in {"blank", "skip"} THEN h.s
    ELSE Lead(h.s) \o (IF h.did # NoneVal THEN h.did ELSE h.t) \o Trail(h.s)

\* a line without its terminator
Body(line) ==
    IF line # <<>> /\ line[Len(line)] = NL
    THEN SubSeq(line, 1, Len(line) - 1) ELSE line

TxtCandidate(line) == ~AllSpace(Body(line))

\* the number of candidates among the first i lines
TxtRank(xs, i) == Cardinality({j \in 1..i : TxtCandidate(xs[j])})

PropCandidate(line) == HasEq(line) /\ ~CommentLine(line)

PropRank(xs, i) == Cardinality({j \in 1..i : PropCandidate(xs[j])})

\* the number of eligible entries among the first i
PoRank(xs, i) == Cardinality({j \in 1..i : Eligible(xs[j])})

\* plain text: a blank line is kept; any other line is a candidate
TxtFilled(before, after, H) ==
    /\ Len(after) = Len(before)
    /\ Len(H) = TxtRank(before, Len(before))
    /\ \A i \in 1..Len(before) :
          IF TxtCandidate(before[i])
          THEN /\ H[TxtRank(before, i)].s = Body(before[i])
               /\ after[i] = Expected(H[TxtRank(before, i)]) \o <<NL>>
          ELSE after[i] = before[i]

\* key=value lines: the text after the first '=' is the candidate
PropFilled(before, after, H) ==
    /\ Len(after) = Len(before)
    /\ Len(H) = PropRank(before, Len(before))
    /\ \A i \in 1..Len(before) :
          IF PropCandidate(before[i])
          THEN /\ H[PropRank(before, i)].s = ValueOf(before[i])
               /\ after[i] = KeyOf(before[i]) \o <<"=">>
                               \o Expected(H[PropRank(before, i)])
                               \o <<NL>>
          ELSE after[i] = before[i]

\* catalog: the id of an eligible entry is the candidate, its translation
\* the slot
PoFilled(before, after, H) ==
    /\ Len(after) = Len(before)
    /\ Len(H) = PoRank(before, Len(before))
    /\ \A i \in 1..Len(before) :
          /\ after[i].msgid = before[i].msgid
          /\ IF Eligible(before[i])
             THEN /\ H[PoRank(before, i)].s = before[i].msgid
                  /\ after[i].msgstr = Expected(H[PoRank(before, i)])
             ELSE after[i].msgstr = before[i].msgstr

\* tree: obj with its str leaves replaced by E[k + 1], E[k + 2], ...
RECURSIVE TreeFill(_, _, _)
TreeFill(obj, E, k) ==
    IF obj.tag = "str" THEN [obj EXCEPT !.v = E[k + 1]]
    ELSE [obj EXCEPT !.items =
            [i \in 1..Len(obj.items) |->
               TreeFill(obj.items[i], E,
                        k + Len(StrLeavesIn(SubSeq(obj.items, 1, i - 1), 1)))]]

\* markup: an element's text when it has any, then its attribute values,
\* then its children
HasText(elem) == elem.text # NoneVal /\ ~AllSpace(elem.text)

RECURSIVE XmlSlots(_)
RECURSIVE XmlSlotsIn(_, _)
XmlSlots(elem) ==
    (IF HasText(elem) THEN <<elem.text>> ELSE <<>>)
      \o elem.attrib \o XmlSlotsIn(elem.kids, 1)

XmlSlotsIn(kids, i) ==
    IF i > Len(kids) THEN <<>> ELSE XmlSlots(kids[i]) \o XmlSlotsIn(kids, i + 1)

RECURSIVE XmlFill(_, _, _)
XmlFill(elem, E, k) ==
    LET own == IF HasText(elem) THEN 1 ELSE 0
        na == Len(elem.attrib)
    IN  [text |-> IF HasText(elem) THEN E[k + 1] ELSE elem.text,
         attrib |-> [i \in 1..na |-> E[k + own + i]],
         kids |-> [i \in 1..Len(elem.kids) |->
                     XmlFill(elem.kids[i], E,
                             k + own + na
                               + Len(XmlSlotsIn(SubSeq(elem.kids, 1, i - 1), 1)))]]

Outs(H) == [j \in 1..Len(H) |-> Expected(H[j])]

Cands(H) == [j \in 1..Len(H) |-> H[j].s]

\* the file's content after the handler is its content before with every
\* candidate, in document order, replaced as Expected says
Filled(sfx, before, after, H) ==
    CASE sfx = ".json" ->
           /\ Cands(H) = StrLeaves(before)
           /\ after = TreeFill(before, Outs(H), 0)
      [] sfx \in {".yml", ".yaml"} ->
           /\ Cands(H) = StrLeaves(before)
           /\ DeepEqual(after, TreeFill(before, Outs(H), 0))
      [] sfx = ".properties" -> PropFilled(before, after, H)
      [] sfx = ".txt" -> TxtFilled(before, after, H)
      [] sfx = ".po" -> PoFilled(before, after, H)
      [] sfx = ".xml" ->
           /\ Cands(H) = XmlSlots(before)
           /\ after = XmlFill(before, Outs(H), 0)
      [] OTHER -> FALSE

\* the client raised for some candidate of the last file
SomeRaised == \E j \in 1..Len(hist) : hist[j].did = Raise

\* C1: whichever of a file's strings the translation client raises for, the
\* handler returns and the file is written: each string the client raised
\* for is written back unchanged, every other translatable string is
\* replaced by its translation, and the row appended for the file has
\* status OK; only a failure to read, parse or write the file gives ERROR.
C1_PerStringFaultTolerance ==
    /\ (last.handled /\ ~last.raised =>
          /\ log_rows # <<>>
          /\ log_rows[Len(log_rows)] = <<last.file, "OK">>
          /\ (hist # <<>> => last.wrote)
          /\ (last.wrote =>
                /\ ~disk[last.file].garbled
                /\ Filled(suffix(last.file), last.before,
                          disk[last.file].data, hist)))
    /\ (last.handled /\ last.raised =>
          events[Len(events)].note \in {"cannot parse", "cannot write"})

C1_Witness ==
    /\ last.file = "d.txt"
    /\ last.handled
    /\ ~last.raised
    /\ Len(hist) = 2
    /\ hist[1].did = Raise
    /\ hist[2].kind = "ok"
    /\ disk["d.txt"].data = << <<" ", "a", NL>>, <<NL>>, <<" ", "b", NL>> >>
    /\ log_rows[Len(log_rows)] = <<"d.txt", "OK">>

=============================================================================
